---- MODULE Spec2Model ----
(***************************************************************************)
(* Model of the interview MCP server (src/mcp_server.py): the in-memory    *)
(* room_context store, the /mcp JSON-RPC endpoint with its two tools, the  *)
(* /upload and /context endpoints and the read-only inspection endpoints.  *)
(*                                                                         *)
(* Texts (resume text, uploaded bytes) are represented by their length in  *)
(* characters; the other strings by themselves.  Python's None is the      *)
(* value None below, distinct from the empty string.                       *)
(***************************************************************************)
EXTENDS Integers, Sequences, FiniteSets, TLC

VARIABLES
    room_context,     \* dict room name -> context (src/mcp_server.py:39)
    mail_configured,  \* composio and CONNECTED_ACCOUNT_ID_GMAIL both set
    now,              \* the clock read by datetime.utcnow()
    lastReq,          \* the request handled last
    lastResp,         \* the HTTP response it got
    outbox,           \* the _send_gmail calls made while handling it
    lastSet           \* history: room -> the form and time of its last accepted POST /context

vars == <<room_context, mail_configured, now, lastReq, lastResp, outbox, lastSet>>

(***************************************************************************)
(* Bounds and input domains                                                *)
(***************************************************************************)
MaxClock == 1

None == "<None>"

Rooms == {"room-1", "room-2"}
RoomArgs == Rooms \cup {"", None}
RequestIds == {"1", None}
Names == {"Ada"}
Emails == {"ada@example.com"}
Phones == {""}
JobTitles == {""}
JobDescriptions == {""}
HrEmails == {"", "hr2@example.com"}

HR_EMAIL == "hr@example.com"
ResumeLimit == 200000
ErrorPrefixLen == 20
InternalErrorCode == -32603

\* lengths of the resume texts a client may post directly to /context
DirectResumeLens == {0, ResumeLimit + 1}

Min(a, b) == IF a < b THEN a ELSE b

\* Python truthiness of an optional string
Falsy(x) == x = None \/ x = ""

(***************************************************************************)
(* Responses                                                               *)
(***************************************************************************)
NoBody == [tag |-> "none"]

\* JSONResponse(content={"jsonrpc","id","result"})
RpcResult(req_id, result) ==
    [kind |-> "jsonrpc", status |-> 200, id |-> req_id,
     members |-> {"result"}, result |-> result, code |-> 0, message |-> ""]

\* JSONResponse(status_code=500, content={"jsonrpc","id","error"})
RpcError(req_id, msg) ==
    [kind |-> "jsonrpc", status |-> 500, id |-> req_id,
     members |-> {"error"}, result |-> NoBody, code |-> InternalErrorCode, message |-> msg]

\* an exception that leaves the handler: the framework's plain 500 page
ServerError ==
    [kind |-> "plain", status |-> 500, id |-> None,
     members |-> {}, result |-> NoBody, code |-> 0, message |-> "Internal Server Error"]

\* raise HTTPException(status_code, detail)
HttpError(status, detail) ==
    [kind |-> "detail", status |-> status, id |-> None,
     members |-> {}, result |-> NoBody, code |-> 0, message |-> detail]

\* a handler's returned dict, sent as 200 JSON
HttpOk(body) ==
    [kind |-> "json", status |-> 200, id |-> None,
     members |-> {}, result |-> body, code |-> 0, message |-> ""]

(***************************************************************************)
(* The store                                                               *)
(***************************************************************************)
EmptyStore == [r \in {} |-> NoBody]

\* room_context.get(room): the stored dict, or None
StoreGet(store, room) ==
    IF room \in DOMAIN store THEN store[room] ELSE NoBody

StorePut_FirstWriteWins(store, room, context) ==
    [r \in (DOMAIN store) \cup {room} |->
        IF r \in DOMAIN store THEN store[r] ELSE context]

StorePut_Clobber(store, room, context) ==
    [r \in (DOMAIN store) \cup {room} |-> context]

\* room_context[roomName] = {...}
StorePut(store, room, context) ==
    [r \in (DOMAIN store) \cup {room} |-> IF r = room THEN context ELSE store[r]]

\* the dict built by set_context
NewContext(f, t) ==
    [tag |-> "context",
     room_name |-> f.roomName, name |-> f.name, email |-> f.email,
     phone |-> f.phone, job_title |-> f.jobTitle,
     job_description |-> f.jobDescription, resume_text |-> f.resumeText,
     hr_email |-> f.hrEmail, created_at |-> t]

Init ==
    /\ room_context = EmptyStore
    /\ mail_configured \in BOOLEAN
    /\ now = 0
    /\ lastReq = [endpoint |-> "none"]
    /\ lastResp = HttpOk(NoBody)
    /\ outbox = <<>>
    /\ lastSet = EmptyStore

(***************************************************************************)
(* POST /context                                                           *)
(***************************************************************************)
\* resume texts a client can post: typed directly, or the text field of the
\* /upload response it has just received
ResumeInputs ==
    DirectResumeLens \cup
    (IF lastResp.result.tag = "upload" THEN {lastResp.result.text} ELSE {})

set_context(f, t) ==
    /\ lastReq' = [endpoint |-> "/context", roomName |-> f.roomName]
    /\ outbox' = <<>>
    /\ IF f.roomName = "" \/ f.name = "" \/ f.email = ""
       THEN /\ lastResp' = HttpError(400, "roomName, name, and email are required")
            /\ UNCHANGED <<room_context, now, lastSet>>
       ELSE /\ now' = t
            /\ room_context' = StorePut(room_context, f.roomName, NewContext(f, t))
            /\ lastSet' = [r \in (DOMAIN lastSet) \cup {f.roomName} |->
                              IF r # f.roomName THEN lastSet[r]
                              ELSE [form |-> f, at |-> t]]
            /\ lastResp' = HttpOk([tag |-> "context_saved", roomName |-> f.roomName,
                                   candidate |-> f.name])
    /\ UNCHANGED mail_configured

Form(rn, n, e, p, jt, jd, rt, hr) ==
    [roomName |-> rn, name |-> n, email |-> e, phone |-> p, jobTitle |-> jt,
     jobDescription |-> jd, resumeText |-> rt, hrEmail |-> hr]

\* the forms a client posts: complete ones, and ones with a required field blank
Forms ==
    {Form(rn, n, e, p, jt, jd, rt, hr) :
        rn \in Rooms, n \in Names, e \in Emails, p \in Phones, jt \in JobTitles,
        jd \in JobDescriptions, rt \in ResumeInputs, hr \in HrEmails}
    \cup {Form("", "Ada", "ada@example.com", "", "", "", 0, ""),
          Form("room-1", "", "ada@example.com", "", "", "", 0, ""),
          Form("room-2", "Ada", "", "", "", "", 0, "")}

SetContext == \E f \in Forms, t \in now..MaxClock : set_context(f, t)

(***************************************************************************)
(* The mail dispatcher                                                     *)
(***************************************************************************)
\* _send_gmail: a mock success when the provider is not configured; else the
\* provider's outcome, an exception becoming {"success": False}
send_gmail(to_email, providerOk) ==
    IF ~mail_configured
    THEN [to |-> to_email, success |-> TRUE, mocked |-> TRUE]
    ELSE IF providerOk
         THEN [to |-> to_email, success |-> TRUE, mocked |-> FALSE]
         ELSE [to |-> to_email, success |-> FALSE, mocked |-> FALSE]

(***************************************************************************)
(* InterviewMCP                                                            *)
(***************************************************************************)
NullResult == [tag |-> "null"]

\* outcome of a handler: a raised exception, or a returned value together
\* with the mails it tried to send
Raise(msg) == [raised |-> TRUE, message |-> msg, value |-> NoBody, sent |-> <<>>]
Return(v, sent) == [raised |-> FALSE, message |-> "", value |-> v, sent |-> sent]

initialize == Return([tag |-> "server_info", protocolVersion |-> "0.1.0"], <<>>)

list_tools ==
    Return([tag |-> "tools",
            names |-> <<"fetch_interview_context", "finish_and_email_transcript">>],
           <<>>)

fetch_interview_context_MissRaises(arguments) ==
    LET room == arguments.room_name
        context == StoreGet(room_context, room)
    IN  IF Falsy(room) THEN Raise("room_name is required")
        ELSE IF context.tag = "none" THEN Raise("no context for room")
        ELSE Return(context, <<>>)

\* the fetch_interview_context branch of call_tool
fetch_interview_context(arguments) ==
    LET room == arguments.room_name
        context == StoreGet(room_context, room)
    IN  IF Falsy(room) THEN Raise("room_name is required")
        ELSE IF context.tag = "none" THEN Return(NullResult, <<>>)
        ELSE Return(context, <<>>)

finish_and_email_transcript_HrAnyway(arguments, candidateOk, hrOk) ==
    LET room == arguments.room_name
        context == StoreGet(room_context, room)
        candidate_email == IF context.tag = "none" THEN None ELSE context.email
        candidate_name == IF context.tag = "none" THEN "Candidate" ELSE context.name
        hr_email == IF context.tag = "none" \/ Falsy(context.hr_email)
                    THEN HR_EMAIL ELSE context.hr_email
        candidate_result == send_gmail(candidate_email, candidateOk)
        hr_result == send_gmail(hr_email, hrOk)
    IN  IF Falsy(room) THEN Raise("room_name is required")
        ELSE IF Falsy(candidate_email)
        THEN Return([tag |-> "finish", success |-> FALSE,
                     error |-> "Candidate email not found"], <<hr_result>>)
        ELSE Return([tag |-> "finish", success |-> TRUE, room_name |-> room,
                     candidate |-> candidate_name,
                     emails_sent |-> [k \in {"candidate", "hr"} |->
                         IF k = "candidate" THEN candidate_result ELSE hr_result]],
                    <<candidate_result, hr_result>>)

finish_and_email_transcript_ShortCircuit(arguments, candidateOk, hrOk) ==
    LET room == arguments.room_name
        context == StoreGet(room_context, room)
        candidate_email == IF context.tag = "none" THEN None ELSE context.email
        candidate_name == IF context.tag = "none" THEN "Candidate" ELSE context.name
        hr_email == IF context.tag = "none" \/ Falsy(context.hr_email)
                    THEN HR_EMAIL ELSE context.hr_email
        candidate_result == send_gmail(candidate_email, candidateOk)
        hr_result == send_gmail(hr_email, hrOk)
    IN  IF Falsy(room) THEN Raise("room_name is required")
        ELSE IF Falsy(candidate_email)
        THEN Return([tag |-> "finish", success |-> FALSE,
                     error |-> "Candidate email not found"], <<>>)
        ELSE IF ~candidate_result.success
        THEN Return([tag |-> "finish", success |-> TRUE, room_name |-> room,
                     candidate |-> candidate_name,
                     emails_sent |-> [k \in {"candidate"} |-> candidate_result]],
                    <<candidate_result>>)
        ELSE Return([tag |-> "finish", success |-> TRUE, room_name |-> room,
                     candidate |-> candidate_name,
                     emails_sent |-> [k \in {"candidate", "hr"} |->
                         IF k = "candidate" THEN candidate_result ELSE hr_result]],
                    <<candidate_result, hr_result>>)

\* the finish_and_email_transcript branch of call_tool
finish_and_email_transcript(arguments, candidateOk, hrOk) ==
    LET room == arguments.room_name
        context == StoreGet(room_context, room)
        candidate_email == IF context.tag = "none" THEN None ELSE context.email
        candidate_name == IF context.tag = "none" THEN "Candidate" ELSE context.name
        hr_email == IF context.tag = "none" \/ Falsy(context.hr_email)
                    THEN HR_EMAIL ELSE context.hr_email
        candidate_result == send_gmail(candidate_email, candidateOk)
        hr_result == send_gmail(hr_email, hrOk)
        email_results == [k \in (IF Falsy(candidate_email) THEN {} ELSE {"candidate"})
                                 \cup {"hr"} |->
                             IF k = "candidate" THEN candidate_result ELSE hr_result]
        sent == (IF Falsy(candidate_email) THEN <<>> ELSE <<candidate_result>>)
                \o <<hr_result>>
    IN  IF Falsy(room) THEN Raise("room_name is required")
        ELSE IF Falsy(candidate_email)
        THEN Return([tag |-> "finish", success |-> FALSE,
                     error |-> "Candidate email not found"], <<>>)
        ELSE Return([tag |-> "finish", success |-> TRUE, room_name |-> room,
                     candidate |-> candidate_name, emails_sent |-> email_results],
                    sent)

\* params.get("arguments") or {}: a missing or empty arguments member reads
\* as a dict without room_name; a non-dict makes .get raise
NoArguments == [atype |-> "dict", room_name |-> None]

call_tool_UnknownIsNull(params, candidateOk, hrOk) ==
    LET name == IF params.ptype = "dict" THEN params.name ELSE None
        arguments == IF params.ptype = "dict" /\ params.arguments.atype # "none"
                     THEN params.arguments ELSE NoArguments
    IN  IF params.ptype = "other" THEN Raise("AttributeError")
        ELSE IF name = "fetch_interview_context"
        THEN IF arguments.atype = "other" THEN Raise("AttributeError")
             ELSE fetch_interview_context(arguments)
        ELSE IF name = "finish_and_email_transcript"
        THEN IF arguments.atype = "other" THEN Raise("AttributeError")
             ELSE finish_and_email_transcript(arguments, candidateOk, hrOk)
        ELSE Return(NullResult, <<>>)

call_tool(params, candidateOk, hrOk) ==
    LET name == IF params.ptype = "dict" THEN params.name ELSE None
        arguments == IF params.ptype = "dict" /\ params.arguments.atype # "none"
                     THEN params.arguments ELSE NoArguments
    IN  IF params.ptype = "other" THEN Raise("AttributeError")
        ELSE IF name = "fetch_interview_context"
        THEN IF arguments.atype = "other" THEN Raise("AttributeError")
             ELSE fetch_interview_context(arguments)
        ELSE IF name = "finish_and_email_transcript"
        THEN IF arguments.atype = "other" THEN Raise("AttributeError")
             ELSE finish_and_email_transcript(arguments, candidateOk, hrOk)
        ELSE Raise("Unknown tool")

(***************************************************************************)
(* POST /mcp                                                               *)
(***************************************************************************)
Methods == {"initialize", "list_tools", "call_tool"}
ToolNames == {"fetch_interview_context", "finish_and_email_transcript"}

\* the dispatch on method inside the try block
Dispatch(body, candidateOk, hrOk) ==
    IF body.method = "initialize" THEN initialize
    ELSE IF body.method = "list_tools" THEN list_tools
    ELSE IF body.method = "call_tool" THEN call_tool(body.params, candidateOk, hrOk)
    ELSE Raise("Method not found")

\* mcp_endpoint: req_id is bound only once request.json() has returned a
\* dict, so an exception before that point makes the except block itself
\* fail on the unbound name and the exception leaves the handler
McpResponse(body, candidateOk, hrOk) ==
    LET out == Dispatch(body, candidateOk, hrOk)
    IN  IF body.kind # "object" THEN ServerError
        ELSE IF out.raised THEN RpcError(body.id, out.message)
        ELSE RpcResult(body.id, out.value)

mcp_endpoint_ForgetsRoom(body, candidateOk, hrOk) ==
    LET resp == McpResponse(body, candidateOk, hrOk)
        done == resp.members = {"result"} /\ resp.result.tag = "finish"
                /\ resp.result.success
    IN  /\ lastReq' = [endpoint |-> "/mcp", body |-> body,
                       candidateOk |-> candidateOk, hrOk |-> hrOk]
        /\ lastResp' = resp
        /\ outbox' = IF body.kind = "object"
                     THEN Dispatch(body, candidateOk, hrOk).sent ELSE <<>>
        /\ room_context' =
             IF done
             THEN [r \in (DOMAIN room_context) \ {resp.result.room_name} |->
                      room_context[r]]
             ELSE room_context
        /\ UNCHANGED <<mail_configured, now, lastSet>>

mcp_endpoint(body, candidateOk, hrOk) ==
    /\ lastReq' = [endpoint |-> "/mcp", body |-> body,
                   candidateOk |-> candidateOk, hrOk |-> hrOk]
    /\ lastResp' = McpResponse(body, candidateOk, hrOk)
    /\ outbox' = IF body.kind = "object" THEN Dispatch(body, candidateOk, hrOk).sent
                 ELSE <<>>
    /\ UNCHANGED <<room_context, mail_configured, now, lastSet>>

NoParams == [ptype |-> "none"]
OtherParams == [ptype |-> "other"]
ArgumentValues ==
    {[atype |-> "none"], [atype |-> "other"]}
    \cup {[atype |-> "dict", room_name |-> r] : r \in RoomArgs}
ParamValues ==
    {NoParams, OtherParams}
    \cup {[ptype |-> "dict", name |-> n, arguments |-> a] :
            n \in ToolNames, a \in ArgumentValues}
    \cup {[ptype |-> "dict", name |-> n, arguments |-> a] :
            n \in {"no_such_tool", None},
            a \in {[atype |-> "none"], [atype |-> "dict", room_name |-> "room-1"]}}

\* request bodies: not JSON at all, JSON that is not an object (neither has
\* an id member to read), or an object
McpBodies ==
    {[kind |-> k, id |-> None, method |-> None, params |-> NoParams] :
        k \in {"invalid_json", "non_object"}}
    \cup {[kind |-> "object", id |-> i, method |-> m, params |-> NoParams] :
            i \in RequestIds, m \in {"initialize", "list_tools", "no_such_method", None}}
    \cup {[kind |-> "object", id |-> i, method |-> "call_tool", params |-> p] :
            i \in RequestIds, p \in ParamValues}

\* the mail provider is consulted, and may fail, only when it is configured
\* and the request gets as far as sending
ProviderOutcomes(body) ==
    IF mail_configured /\ body.kind = "object" /\ Dispatch(body, TRUE, TRUE).sent # <<>>
    THEN BOOLEAN ELSE {TRUE}

McpRequest ==
    \E body \in McpBodies :
        \E candidateOk \in ProviderOutcomes(body), hrOk \in ProviderOutcomes(body) :
            mcp_endpoint(body, candidateOk, hrOk)

(***************************************************************************)
(* POST /upload                                                            *)
(***************************************************************************)
Suffix(filename) ==
    IF filename = "cv.pdf" THEN ".pdf"
    ELSE IF filename = "cv.docx" THEN ".docx"
    ELSE IF filename = "cv.txt" THEN ".txt"
    ELSE ""

\* _extract_text_from_upload: the stripped text of the document; a parser
\* exception (pdf, docx) becomes the text "Error reading file: <message>";
\* the utf-8 decode with errors="ignore" cannot raise
extract_text_from_upload(file) ==
    IF file.filename = "" THEN 0
    ELSE IF Suffix(file.filename) \in {".pdf", ".docx"} /\ file.corrupt
         THEN ErrorPrefixLen + file.errlen
         ELSE file.text

\* what the body of the try block does: an HTTPException it raises is an
\* Exception, so the except clause turns it into the 500 below
UploadBody(file) ==
    LET text == extract_text_from_upload(file)
    IN  IF file.size = 0 THEN Raise("Empty file")
        ELSE IF text = 0 THEN Raise("Could not extract text from file")
        ELSE Return([tag |-> "upload", text |-> Min(text, ResumeLimit),
                     filename |-> file.filename, size |-> file.size], <<>>)

UploadResponse(file) ==
    IF file.filename = "" THEN HttpError(400, "No file provided")
    ELSE IF UploadBody(file).raised THEN HttpError(500, "File processing error")
    ELSE HttpOk(UploadBody(file).value)

upload_resume(file) ==
    /\ lastReq' = [endpoint |-> "/upload", file |-> file]
    /\ lastResp' = UploadResponse(file)
    /\ outbox' = <<>>
    /\ UNCHANGED <<room_context, mail_configured, now, lastSet>>

\* uploaded files: no bytes; bytes without text; a document longer than the
\* limit; a pdf or docx the parser rejects
Files ==
    {[filename |-> fn, size |-> 0, text |-> 0, corrupt |-> FALSE, errlen |-> 0] :
        fn \in {"", "cv.pdf", "cv.txt"}}
    \cup {[filename |-> fn, size |-> 10, text |-> 0, corrupt |-> FALSE, errlen |-> 0] :
        fn \in {"cv.pdf", "cv.txt"}}
    \cup {[filename |-> fn, size |-> ResumeLimit + 10, text |-> ResumeLimit + 1,
           corrupt |-> FALSE, errlen |-> 0] : fn \in {"cv.docx", "cv.txt"}}
    \cup {[filename |-> "cv.pdf", size |-> 10, text |-> 0, corrupt |-> TRUE, errlen |-> 5]}

UploadResume == \E file \in Files : upload_resume(file)

(***************************************************************************)
(* The read-only endpoints                                                 *)
(***************************************************************************)
\* GET /context/{room_name}
get_context(room_name) ==
    LET context == StoreGet(room_context, room_name)
    IN  /\ lastReq' = [endpoint |-> "/context/{room_name}", room_name |-> room_name]
        /\ lastResp' =
             IF context.tag = "none" THEN HttpError(404, "Room context not found")
             ELSE HttpOk([tag |-> "sanitized", room_name |-> context.room_name,
                          candidate |-> context.name, email |-> context.email,
                          job_title |-> context.job_title,
                          has_resume |-> context.resume_text > 0,
                          created_at |-> context.created_at])
        /\ outbox' = <<>>
        /\ UNCHANGED <<room_context, mail_configured, now, lastSet>>

GetContext == \E room_name \in Rooms : get_context(room_name)

\* GET /rooms (the summaries as a set: the order of the list is not modelled)
list_rooms ==
    /\ lastReq' = [endpoint |-> "/rooms"]
    /\ lastResp' = HttpOk([tag |-> "rooms",
                           active_rooms |-> Cardinality(DOMAIN room_context),
                           rooms |-> {[room_name |-> r,
                                       candidate |-> room_context[r].name,
                                       job_title |-> room_context[r].job_title,
                                       created_at |-> room_context[r].created_at] :
                                      r \in DOMAIN room_context}])
    /\ outbox' = <<>>
    /\ UNCHANGED <<room_context, mail_configured, now, lastSet>>

\* GET /
root ==
    /\ lastReq' = [endpoint |-> "/"]
    /\ lastResp' = HttpOk([tag |-> "root",
                           active_rooms |-> Cardinality(DOMAIN room_context)])
    /\ outbox' = <<>>
    /\ UNCHANGED <<room_context, mail_configured, now, lastSet>>

\* GET /health (its timestamp and composio_configured members are left out)
health_check ==
    /\ lastReq' = [endpoint |-> "/health"]
    /\ lastResp' = HttpOk([tag |-> "health", status |-> "healthy",
                           active_interviews |-> Cardinality(DOMAIN room_context)])
    /\ outbox' = <<>>
    /\ UNCHANGED <<room_context, mail_configured, now, lastSet>>

Next ==
    \/ SetContext
    \/ McpRequest
    \/ UploadResume
    \/ GetContext
    \/ list_rooms
    \/ root
    \/ health_check

Spec == Init /\ [][Next]_vars

(***************************************************************************)
(* Reading the last request                                                *)
(***************************************************************************)
IsMcp == lastReq.endpoint = "/mcp"
IsRpc(method) ==
    IsMcp /\ lastReq.body.kind = "object" /\ lastReq.body.method = method
\* the tool name and the room_name a call_tool request carries (None: absent)
ReqTool ==
    IF lastReq.body.params.ptype = "dict" THEN lastReq.body.params.name ELSE None
ReqRoom ==
    IF lastReq.body.params.ptype = "dict"
       /\ lastReq.body.params.arguments.atype = "dict"
    THEN lastReq.body.params.arguments.room_name ELSE None
IsRpcError == lastResp.kind = "jsonrpc" /\ lastResp.members = {"error"}
IsRpcResult == lastResp.kind = "jsonrpc" /\ lastResp.members = {"result"}

(***************************************************************************)
(* C1: every response of /mcp is a JSON-RPC response carrying the id of    *)
(* the request that caused it, whatever the request body is.               *)
(* Fails: a body that is not JSON, or not an object, raises before req_id  *)
(* is bound, the except block raises in turn, and the client gets the      *)
(* framework's plain 500 page instead of a JSON-RPC response.              *)
(***************************************************************************)
C1_IdAlwaysEchoed ==
    IsMcp => lastResp.kind = "jsonrpc" /\ lastResp.id = lastReq.body.id

(***************************************************************************)
(* C2: a call_tool request naming an unregistered tool, or naming a        *)
(* registered tool without a non-empty room_name, is answered with an      *)
(* error member and no result member, in every store state.                *)
(***************************************************************************)
MalformedCall ==
    /\ IsRpc("call_tool")
    /\ \/ ReqTool \notin ToolNames
       \/ Falsy(ReqRoom)

C2_MalformedCallIsError ==
    MalformedCall => IsRpcError /\ "result" \notin lastResp.members

C2_Witness ==
    /\ MalformedCall
    /\ ReqTool = "finish_and_email_transcript"
    /\ ReqRoom = ""
    /\ DOMAIN room_context = Rooms
    /\ IsRpcError

(***************************************************************************)
(* C3: fetch_interview_context for a room that no accepted set-context     *)
(* call has named returns a null result in the result channel, never an    *)
(* error, whatever else has happened.                                      *)
(***************************************************************************)
IsFetch(room) ==
    IsRpc("call_tool") /\ ReqTool = "fetch_interview_context" /\ ReqRoom = room

C3_UnsetRoomIsNull ==
    \A R \in Rooms :
        IsFetch(R) /\ R \notin DOMAIN lastSet =>
            IsRpcResult /\ lastResp.result = NullResult /\ lastResp.id = lastReq.body.id

C3_Witness ==
    /\ IsFetch("room-2")
    /\ DOMAIN lastSet = {"room-1"}
    /\ IsRpcResult
    /\ lastResp.result = NullResult

(***************************************************************************)
(* C4: last write wins, with full replacement: fetch_interview_context(R)  *)
(* returns exactly the fields of the most recent accepted set for R.       *)
(***************************************************************************)
C4_LastWriteWins ==
    \A R \in Rooms :
        IsFetch(R) /\ R \in DOMAIN lastSet =>
            /\ IsRpcResult
            /\ lastResp.result.tag = "context"
            /\ lastResp.result.room_name = R
            /\ lastResp.result.name = lastSet[R].form.name
            /\ lastResp.result.email = lastSet[R].form.email
            /\ lastResp.result.phone = lastSet[R].form.phone
            /\ lastResp.result.job_title = lastSet[R].form.jobTitle
            /\ lastResp.result.job_description = lastSet[R].form.jobDescription
            /\ lastResp.result.resume_text = lastSet[R].form.resumeText
            /\ lastResp.result.hr_email = lastSet[R].form.hrEmail
            /\ lastResp.result.created_at = lastSet[R].at

C4_Witness ==
    /\ IsFetch("room-1")
    /\ DOMAIN lastSet = Rooms
    /\ lastSet["room-1"].at > lastSet["room-2"].at
    /\ lastSet["room-1"].form.hrEmail # lastSet["room-2"].form.hrEmail
    /\ IsRpcResult
    /\ lastResp.result.tag = "context"
    /\ lastResp.result.hr_email = lastSet["room-1"].form.hrEmail

(***************************************************************************)
(* C5: finish_and_email_transcript for a room with no candidate email on   *)
(* file (a room without context included) returns an ordinary result with  *)
(* success = FALSE and a reason, no RPC error, and sends no mail at all.    *)
(***************************************************************************)
IsFinish(room) ==
    IsRpc("call_tool") /\ ReqTool = "finish_and_email_transcript" /\ ReqRoom = room

HasCandidateEmail(room) ==
    room \in DOMAIN room_context /\ ~Falsy(room_context[room].email)

C5_NoEmailIsSoftFailure ==
    \A R \in Rooms :
        IsFinish(R) /\ ~HasCandidateEmail(R) =>
            /\ IsRpcResult
            /\ lastResp.result.tag = "finish"
            /\ lastResp.result.success = FALSE
            /\ lastResp.result.error # ""
            /\ outbox = <<>>

C5_Witness ==
    /\ IsFinish("room-2")
    /\ DOMAIN room_context = {"room-1"}
    /\ mail_configured
    /\ IsRpcResult
    /\ lastResp.result.success = FALSE
    /\ outbox = <<>>

(***************************************************************************)
(* C6: finish_and_email_transcript for a room with a candidate email tries *)
(* the candidate send and the HR send both, whatever either's outcome; an  *)
(* unconfigured provider gives simulated successes; emails_sent has one    *)
(* entry per recipient with that send's own success flag; and the overall  *)
(* result says success = TRUE even when a send failed.                     *)
(***************************************************************************)
HrAddress(room) ==
    IF Falsy(room_context[room].hr_email) THEN HR_EMAIL ELSE room_context[room].hr_email

C6_BothSendsAttempted ==
    \A R \in Rooms :
        IsFinish(R) /\ HasCandidateEmail(R) =>
            /\ IsRpcResult
            /\ lastResp.result.tag = "finish"
            /\ lastResp.result.success = TRUE
            /\ Len(outbox) = 2
            /\ {outbox[1].to, outbox[2].to} = {room_context[R].email, HrAddress(R)}
            /\ DOMAIN lastResp.result.emails_sent = {"candidate", "hr"}
            /\ lastResp.result.emails_sent["candidate"].to = room_context[R].email
            /\ lastResp.result.emails_sent["hr"].to = HrAddress(R)
            /\ lastResp.result.emails_sent["candidate"].success
                 = (~mail_configured \/ lastReq.candidateOk)
            /\ lastResp.result.emails_sent["hr"].success
                 = (~mail_configured \/ lastReq.hrOk)
            /\ ~mail_configured =>
                 /\ lastResp.result.emails_sent["candidate"].mocked
                 /\ lastResp.result.emails_sent["hr"].mocked

C6_Witness ==
    /\ IsFinish("room-1")
    /\ HasCandidateEmail("room-1")
    /\ mail_configured
    /\ ~lastReq.candidateOk
    /\ lastReq.hrOk
    /\ Len(outbox) = 2
    /\ IsRpcResult
    /\ lastResp.result.success = TRUE
    /\ ~lastResp.result.emails_sent["candidate"].success
    /\ lastResp.result.emails_sent["hr"].success

(***************************************************************************)
(* C7: a request with an unknown method, an unknown tool name or a missing *)
(* room_name is answered with a JSON-RPC error object in an HTTP response  *)
(* that is not a 5xx.                                                      *)
(* Fails: the except block sends every error with status_code=500.         *)
(***************************************************************************)
AnticipatedFailure ==
    /\ IsMcp
    /\ lastReq.body.kind = "object"
    /\ \/ lastReq.body.method \notin Methods
       \/ /\ lastReq.body.method = "call_tool"
          /\ lastReq.body.params.ptype # "other"
          /\ \/ ReqTool \notin ToolNames
             \/ /\ lastReq.body.params.arguments.atype # "other"
                /\ Falsy(ReqRoom)

C7_AnticipatedFailureNot5xx ==
    AnticipatedFailure => IsRpcError /\ lastResp.status < 500

(***************************************************************************)
(* C8: a request whose method is not initialize, list_tools or call_tool   *)
(* is answered with an error code other than the internal-error code used  *)
(* for unexpected exceptions.                                              *)
(* Fails: "Method not found" is raised as a ValueError and reported by the *)
(* same except block, with code -32603.                                    *)
(***************************************************************************)
C8_UnknownMethodHasOwnCode ==
    IsMcp /\ lastReq.body.kind = "object" /\ lastReq.body.method \notin Methods =>
        IsRpcError /\ lastResp.code # InternalErrorCode

(***************************************************************************)
(* C9: /upload reports a file of zero bytes, and a file from which no text *)
(* could be extracted, with an HTTP 4xx status.                            *)
(* Fails: the HTTPException(400) is raised inside the try block, whose     *)
(* except Exception clause re-raises it as a 500.                          *)
(***************************************************************************)
IsUpload == lastReq.endpoint = "/upload"

C9_EmptyUploadIsClientError ==
    IsUpload /\ lastReq.file.filename # ""
             /\ (lastReq.file.size = 0 \/ extract_text_from_upload(lastReq.file) = 0) =>
        lastResp.status \in 400..499

(***************************************************************************)
(* C10: every stored context's resume_text is at most 200,000 characters   *)
(* long, whether it came from /upload or was posted directly to /context.  *)
(* Fails: only /upload truncates; /context stores resumeText as posted.    *)
(***************************************************************************)
C10_StoredResumeBounded ==
    \A R \in DOMAIN room_context : room_context[R].resume_text <= ResumeLimit

(***************************************************************************)
(* C11: a room's created_at is written once, by the first accepted set for *)
(* the room, and no later step changes it, further sets for the same room  *)
(* included.                                                               *)
(* Fails: set_context builds a whole new dict on every call and stamps it  *)
(* with the current datetime.utcnow().                                     *)
(***************************************************************************)
C11_CreatedAtNeverChanges ==
    [][\A R \in DOMAIN room_context :
          /\ R \in DOMAIN room_context'
          /\ room_context'[R].created_at = room_context[R].created_at]_vars

(***************************************************************************)
(* The agent (src/agent.py): what its two tools make of the answer to the  *)
(* call_tool request they send                                             *)
(***************************************************************************)
\* httpx raised instead of returning a response (connect error, timeout)
TransportFailure ==
    [kind |-> "transport_failure", status |-> 0, id |-> None,
     members |-> {}, result |-> NoBody, code |-> 0, message |-> "ConnectError"]

\* MCPHTTPClient._rpc after the post: raise_for_status, then the error
\* member, then data.get("result")
rpc(resp) ==
    IF resp.kind = "transport_failure" THEN Raise("transport failure")
    ELSE IF resp.status >= 400 THEN Raise("HTTPStatusError")
    ELSE IF "error" \in resp.members THEN Raise("MCP error")
    ELSE IF "result" \in resp.members THEN Return(resp.result, <<>>)
    ELSE Return(NullResult, <<>>)

\* InterviewAgent._call_mcp: any exception is logged and becomes None
call_mcp(resp) ==
    IF rpc(resp).raised THEN NullResult ELSE rpc(resp).value

\* Python truthiness of a tool result: None is false, a non-empty dict true
Truthy(result) == result.tag \notin {"null", "none"}

NoContextMessage == "No interview context found for room"
ContextLoadedMessage == "INTERVIEW CONTEXT LOADED"
CompletedMessage == "Interview completed! Emails sent successfully"
FailedMessage == "Failed to send emails. Please check the MCP server logs."

\* InterviewAgent.fetch_interview_context
InterviewAgent_fetch_interview_context(resp) ==
    IF ~Truthy(call_mcp(resp)) THEN NoContextMessage ELSE ContextLoadedMessage

\* InterviewAgent.finish_and_email_transcript
InterviewAgent_finish_and_email_transcript(resp) ==
    IF Truthy(call_mcp(resp)) THEN CompletedMessage ELSE FailedMessage

\* the request MCPHTTPClient.call_tool sends: a fresh client per call, so
\* req_id is 1, and arguments is a dict holding the room_name string
IsAgentCall(tool, room) ==
    /\ IsRpc("call_tool")
    /\ lastReq.body.id = "1"
    /\ ReqTool = tool
    /\ lastReq.body.params.arguments.atype = "dict"
    /\ ReqRoom = room

(***************************************************************************)
(* C12: the agent's fetch_interview_context tool gives a different outcome *)
(* for "the server answered null: no context for this room" than for a     *)
(* call that failed with a protocol-level error or a transport failure.    *)
(* Fails: _call_mcp turns every failure into None, the value the server    *)
(* sends for a room without context, and the tool answers both with the    *)
(* same "No interview context found" text.                                 *)
(***************************************************************************)
AgentFailures ==
    {RpcError("1", "room_name is required"), ServerError, TransportFailure}

C12_NoContextDistinctFromFailure ==
    \A R \in Rooms :
        IsAgentCall("fetch_interview_context", R) /\ lastResp = RpcResult("1", NullResult) =>
            \A failure \in AgentFailures :
                InterviewAgent_fetch_interview_context(lastResp)
                    # InterviewAgent_fetch_interview_context(failure)

(***************************************************************************)
(* C15: the agent's finish_and_email_transcript tool answers "Interview    *)
(* completed! Emails sent successfully" only when the server's result has  *)
(* success = TRUE; for a result with success = FALSE, or a failed call, it *)
(* answers with the failure message.                                       *)
(* Fails: the tool tests `if result:`, and the dict {"success": False,     *)
(* "error": ...} is non-empty, hence true.                                 *)
(***************************************************************************)
C15_CompletedOnlyOnSuccess ==
    \A R \in Rooms \cup {""} :
        IsAgentCall("finish_and_email_transcript", R) =>
            IF IsRpcResult /\ lastResp.result.tag = "finish" /\ lastResp.result.success
            THEN InterviewAgent_finish_and_email_transcript(lastResp) = CompletedMessage
            ELSE InterviewAgent_finish_and_email_transcript(lastResp) = FailedMessage

(***************************************************************************)
(* C13: in any order of set-context and fetch_interview_context calls, a   *)
(* fetch for room R returns null or the one complete payload written by a  *)
(* single set for R, never fields of two sets or of another room; and a    *)
(* set for room A leaves the context of every other room as it was.        *)
(* (Each handler reads or writes the store and builds its response without *)
(* an await in between, so the calls interleave as whole steps.)           *)
(***************************************************************************)
FetchIsOneWholePayload ==
    \A R \in Rooms :
        IsFetch(R) /\ IsRpcResult =>
            IF R \in DOMAIN lastSet
            THEN lastResp.result = NewContext(lastSet[R].form, lastSet[R].at)
                 /\ lastSet[R].form.roomName = R
            ELSE lastResp.result = NullResult

SetTouchesOnlyItsRoom ==
    \A A \in Rooms :
        lastReq'.endpoint = "/context" /\ lastReq'.roomName = A =>
            /\ DOMAIN room_context' \subseteq (DOMAIN room_context) \cup {A}
            /\ \A B \in (DOMAIN room_context) \ {A} :
                  B \in DOMAIN room_context' /\ room_context'[B] = room_context[B]

C13_RoomsDoNotInterfere ==
    []FetchIsOneWholePayload /\ [][SetTouchesOnlyItsRoom]_vars

C13_Witness ==
    /\ IsFetch("room-1")
    /\ IsRpcResult
    /\ DOMAIN lastSet = Rooms
    /\ lastSet["room-2"].at > lastSet["room-1"].at
    /\ lastSet["room-2"].form.resumeText # lastSet["room-1"].form.resumeText
    /\ lastResp.result.tag = "context"
    /\ lastResp.result.room_name = "room-1"
    /\ lastResp.result.resume_text = lastSet["room-1"].form.resumeText
    /\ lastResp.result.created_at = lastSet["room-1"].at

(***************************************************************************)
(* C14: initialize, list_tools and call_tool (both tools, whether they     *)
(* succeed, report success = FALSE or fail) leave the whole store as it    *)
(* was, and no step of the server removes a room from the store.           *)
(***************************************************************************)
C14_RpcOnlyReadsStore ==
    [][/\ lastReq'.endpoint = "/mcp" => room_context' = room_context
       /\ DOMAIN room_context \subseteq DOMAIN room_context']_vars

C14_Witness ==
    /\ IsFinish("room-1")
    /\ IsRpcResult
    /\ lastResp.result.tag = "finish"
    /\ lastResp.result.success
    /\ Len(outbox) = 2
    /\ DOMAIN room_context = Rooms
    /\ room_context["room-1"] = NewContext(lastSet["room-1"].form, lastSet["room-1"].at)
====
